---- MODULE Spec2Model ----
(***************************************************************************)
(* People tracking counter: the frame-processing pipeline of               *)
(* src/tracker.py (process_video, process_camera, fix_video_codec,         *)
(* get_detections, draw_tracking_info).                                    *)
(*                                                                         *)
(* One run of process_video or of process_camera is modelled statement     *)
(* group by statement group (pc is the position in the function).  The     *)
(* collaborators the code calls (OpenCV capture and writer, ffmpeg, the    *)
(* YOLO model, the DeepSort tracker) are the environment: their outcomes   *)
(* are chosen nondeterministically inside the action that calls them.      *)
(*                                                                         *)
(* Frame rates are kept in hundredths of a frame per second (3000 = 30.0)  *)
(* and confidences in hundredths (35 = 0.35), so every float of the code   *)
(* that matters is an exact integer here.                                  *)
(***************************************************************************)
EXTENDS Integers, FiniteSets, Sequences, TLC

\* ---------------------------------------------------------------- bounds
\* ground-truth people that can walk through the scene of a short run
MaxPeople == 2
\* frames a long video file can hold: enough for a track to be confirmed
\* (n_init), deleted (max_age + 1 misses) and confirmed again
MaxFrames == 61
\* frames of a short run, in which up to MaxPeople people are in the scene;
\* a longer run has one person in its scene
ShortRun == 6
\* tracks the tracker may create in one run (caps DeepSort's id counter)
MaxTracks == 3
\* requests the API receives at most
MaxRequests == 2
\* ticks the wall clock advances at most
MaxTicks == 2
\* frames an uploaded file holds at most
MaxUploadFrames == 2

\* ------------------------------------------------------- program constants
\* DeepSort(max_age=50, n_init=5)
max_age == 50
n_init == 5
\* fps = 30.0 when the camera reports 0 (hundredths of a frame per second)
DefaultFps == 3000
\* confidence_threshold: float = 0.35 (hundredths)
DefaultThreshold == 35
\* the highest confidence and the highest threshold, 1.0 (hundredths)
MaxConfidence == 100
\* CameraRequest.duration_seconds has ge=5
MinDuration == 5

People == 1..MaxPeople
\* rates a camera can report: none (0) or 1.25 frames per second
ReportedFps == {0, 125}
\* rate reported by a video file processed directly: 30 frames per second
\* (an uploaded file may also report none, see track_video_Begin)
FileFps == DefaultFps
Durations == {MinDuration}
Thresholds == {DefaultThreshold, MaxConfidence}
\* confidences the detector can give a box (hundredths)
Confidences == {DefaultThreshold, MaxConfidence}
\* classes the detector can give a box: 0 is person
Classes == {0, 1}

\* the three paths of one run: input_path, fixed_path and output_path
INPUT == "input"
FIXED == "fixed"
OUTPUT == "output"

VARIABLES
    mode,            \* "video": process_video, "camera": process_camera
    pc,              \* position in the function
    fs,              \* paths that exist on disk
    readable,        \* cv2 can decode the input file (the probe read succeeds)
    confidence_threshold,
    duration_seconds,
    reported_fps,    \* what cap.get(CAP_PROP_FPS) returns
    limit,           \* process_video: frames the file holds at most
    scene,           \* the people who can be in front of the lens
    api,             \* position of the endpoint that made the call; "direct"
                     \* when the function was called without the API
    now,             \* the wall clock, in ticks
    requests,        \* the requests received so far, with their answers
    disk,            \* the paths on disk when no request is in progress
    video_path,      \* process_video: the path fix_video_codec returned
    cap,             \* Frame Source handle: "none", "open", "released"
    out,             \* Frame Sink handle: "none", "open", "released"
    fps,             \* the local fps after the fallback
    max_frames,      \* process_camera: int(duration_seconds * fps)
    frame_count,
    unique_ids,
    boxes,           \* results.boxes of model.predict for the current frame,
                     \* kept until the tracker has taken the detections
    detections,      \* result of get_detections for the current frame
    tracks,          \* result of tracker.update_tracks for the current frame
    active_ids,
    overlay,         \* what draw_tracking_info drew on the current frame
    trk,             \* the tracker's track of each person
    next_id,         \* the tracker's id counter
    error,           \* the exception leaving the function, "none" if none
    result,          \* the dictionary returned
    \* history of the run
    ffmpeg_calls,    \* times subprocess.run(ffmpeg) was invoked
    reads_ok,        \* cap.read() calls that returned a frame
    reads_failed,    \* cap.read() calls that returned no frame
    written,         \* out.write() calls
    stop_reason,     \* why the loop was left
    calls,           \* calls made so far to the detector, to the tracker and
                     \* to release() of each handle
    confirmed_seen,  \* ids the tracker reported confirmed in some frame
    gt               \* ground truth of each person's appearances

vars == <<mode, pc, fs, readable, confidence_threshold, duration_seconds,
          reported_fps, limit, scene, api, now, requests, disk, video_path,
          cap, out, fps, max_frames,
          frame_count, unique_ids, boxes, detections, tracks, active_ids,
          overlay, trk, next_id, error, result, ffmpeg_calls, reads_ok,
          reads_failed, written, stop_reason, calls, confirmed_seen, gt>>

runvars == <<mode, readable, confidence_threshold, duration_seconds,
            reported_fps, limit, scene>>
apivars == <<api, now, requests, disk>>
envvars == <<runvars, apivars>>
loopvars == <<unique_ids, boxes, detections, tracks, active_ids>>
trackervars == <<trk, next_id, confirmed_seen, gt>>
handlevars == <<cap, out>>
countvars == <<frame_count, reads_ok, reads_failed, written>>

NoTrack == [id |-> 0, hits |-> 0, tsu |-> 0, st |-> "none"]
NoResult == [kind |-> "none", total_unique_people |-> 0, total_frames |-> 0,
             duration_seconds |-> 0]
NoTruth == [streak |-> 0, absent |-> 0, qualified |-> FALSE, appeared |-> FALSE,
            late |-> FALSE]

NoCalls == [predict |-> 0, update_tracks |-> 0, cap_release |-> 0,
            out_release |-> 0]

NoOverlay == [drawn |-> {}, people_count |-> 0, total_unique |-> 0]

Min(a, b) == IF a < b THEN a ELSE b

\* ------------------------------------------------------------ environment
\* What ffmpeg can do with the input: it cannot succeed without an input
\* file; when it fails on an existing file it may leave a partial output.
TranscodeOutcomes(files, input_path) ==
    IF input_path \in files THEN {"ok", "fail", "partial"} ELSE {"fail"}

\* What model.predict can return for one frame: boxes with a class and a
\* confidence, at most one box for each person in the scene.
NoBox == <<-1, 0>>
RawBoxes ==
    {NoBox} \cup ({0} \X Confidences) \cup ((Classes \ {0}) \X {MaxConfidence})
RawResults(who) ==
    {{[who |-> p, cls |-> f[p][1], conf |-> f[p][2]] :
         p \in {q \in who : f[q] # NoBox}} : f \in [who -> RawBoxes]}

\* cv2.VideoWriter(path, fourcc, rate, size): the file is created and the
\* writer opened unless the rate is not positive; the constructor never raises
VideoWriter(files, path, rate) ==
    IF rate > 0 THEN [files |-> files \cup {path}, handle |-> "open"]
                ELSE [files |-> files, handle |-> "failed"]

\* ------------------------------------------------------------ fix_video_codec
\* (a repair step that transcodes whatever the probe read returned)
fix_video_codec_Always(input_path, output_path, files, ret, ffmpeg) ==
    IF ffmpeg = "ok"
    THEN [raised |-> FALSE, path |-> output_path,
          files |-> files \cup {output_path}, calls |-> 1]
    ELSE [raised |-> TRUE, path |-> "",
          files |-> IF ffmpeg = "partial" THEN files \cup {output_path}
                                          ELSE files,
          calls |-> 1]

\* (a repair step that runs ffmpeg a second time when the first run failed)
fix_video_codec_Retry(input_path, output_path, files, ret, ffmpeg) ==
    IF ~ret
    THEN IF ffmpeg = "ok"
         THEN [raised |-> FALSE, path |-> output_path,
               files |-> files \cup {output_path}, calls |-> 1]
         ELSE [raised |-> TRUE, path |-> "",
               files |-> IF ffmpeg = "partial" THEN files \cup {output_path}
                                               ELSE files,
               calls |-> 2]
    ELSE [raised |-> FALSE, path |-> input_path, files |-> files, calls |-> 0]

\* The probe read, then the ffmpeg run with check=True when the probe failed.
fix_video_codec(input_path, output_path, files, ret, ffmpeg) ==
    IF ~ret
    THEN IF ffmpeg = "ok"
         THEN [raised |-> FALSE, path |-> output_path,
               files |-> files \cup {output_path}, calls |-> 1]
         ELSE [raised |-> TRUE, path |-> "",
               files |-> IF ffmpeg = "partial" THEN files \cup {output_path}
                                               ELSE files,
               calls |-> 1]
    ELSE [raised |-> FALSE, path |-> input_path, files |-> files, calls |-> 0]

\* ------------------------------------------------------------ get_detections
\* (a filter that also keeps a box whose confidence equals the threshold)
get_detections_Inclusive(raw, threshold) ==
    {b.who : b \in {x \in raw : x.cls = 0 /\ x.conf >= threshold}}

\* Keeps the boxes of class 0 whose confidence is above the threshold; a kept
\* box is identified here by the person it encloses.
get_detections(raw, threshold) ==
    {b.who : b \in {x \in raw : x.cls = 0 /\ x.conf > threshold}}

\* ------------------------------------------------------------ the tracker
initialize_tracker == [p \in People |-> NoTrack]

\* id given to the track created for person p in this update: ids are handed
\* out in order to the detections that match no live track
NewId(p, dets, t, nid) ==
    nid + Cardinality({q \in dets : q < p /\ t[q].st = "none"})

\* one track after one update: a hit resets the miss counter and confirms a
\* tentative track at n_init hits; a miss deletes a tentative track at once
\* and a confirmed track once it was missed more than max_age times
UpdateTrack(t, hit, newid) ==
    IF t.st = "none"
    THEN IF hit THEN [id |-> newid, hits |-> 1, tsu |-> 0, st |-> "tentative"]
                ELSE NoTrack
    ELSE IF hit
         THEN [id |-> t.id, hits |-> Min(t.hits + 1, n_init), tsu |-> 0,
               st |-> IF t.hits + 1 >= n_init THEN "confirmed" ELSE t.st]
         ELSE IF t.st = "tentative" \/ t.tsu + 1 > max_age
              THEN NoTrack
              ELSE [t EXCEPT !.tsu = t.tsu + 1]

update_tracks(t, dets, nid) ==
    [p \in People |-> UpdateTrack(t[p], p \in dets, NewId(p, dets, t, nid))]

Created(t, dets) == Cardinality({p \in dets : t[p].st = "none"})

\* the list update_tracks returns: every live track, confirmed or not
TrackList(t) ==
    {[track_id |-> t[p].id, is_confirmed |-> t[p].st = "confirmed"] :
        p \in {q \in People : t[q].st # "none"}}

\* ground truth of one person after one frame of the detection stream
Truth(g, hit) ==
    IF hit
    THEN [streak |-> Min(g.streak + 1, n_init), absent |-> 0,
          qualified |-> g.qualified \/ g.streak + 1 >= n_init,
          appeared |-> TRUE,
          late |-> g.late \/ (g.qualified /\ g.absent >= max_age)]
    ELSE [g EXCEPT !.streak = 0,
                   !.absent = IF g.qualified THEN Min(g.absent + 1, max_age + 1)
                                             ELSE 0]

\* ------------------------------------------------------------ process_camera
\* fps = 30.0 when the camera reports 0
EffectiveFps(reported) == IF reported = 0 THEN DefaultFps ELSE reported

\* max_frames = int(duration_seconds * fps), fps in hundredths
MaxFramesOf(duration, rate) == (duration * rate) \div 100

\* ------------------------------------------------------------ initial state
\* frames a run can process at most
RunLength(m, lim, duration, reported) ==
    IF m = "video" THEN lim ELSE MaxFramesOf(duration, EffectiveFps(reported))

\* the locals of a call that has not started, and an empty history
NoRun ==
    /\ video_path = ""
    /\ cap = "none"
    /\ out = "none"
    /\ fps = 0
    /\ max_frames = 0
    /\ frame_count = 0
    /\ unique_ids = {}
    /\ boxes = {}
    /\ detections = {}
    /\ tracks = {}
    /\ active_ids = {}
    /\ overlay = NoOverlay
    /\ trk = initialize_tracker
    /\ next_id = 1
    /\ error = "none"
    /\ result = NoResult
    /\ ffmpeg_calls = 0
    /\ reads_ok = 0
    /\ reads_failed = 0
    /\ written = 0
    /\ stop_reason = "none"
    /\ calls = NoCalls
    /\ confirmed_seen = {}
    /\ gt = [p \in People |-> NoTruth]

\* process_video or process_camera called directly
Init ==
    /\ mode \in {"video", "camera"}
    /\ pc = "start"
    /\ fs \in IF mode = "video" THEN {{}, {INPUT}} ELSE {{}}
    /\ readable \in IF INPUT \in fs THEN BOOLEAN ELSE {FALSE}
    /\ confidence_threshold \in Thresholds
    /\ duration_seconds \in IF mode = "camera" THEN Durations ELSE {0}
    /\ reported_fps \in IF mode = "camera" THEN ReportedFps ELSE {FileFps}
    /\ limit \in IF mode = "video" THEN {ShortRun, MaxFrames} ELSE {0}
    /\ scene = IF RunLength(mode, limit, duration_seconds, reported_fps)
                    <= ShortRun
               THEN People ELSE {1}
    /\ api = "direct"
    /\ now = 0
    /\ requests = <<>>
    /\ disk = {}
    /\ NoRun

\* ------------------------------------------------------------ process_video
\* lines 155-160: load the model and the tracker, derive fixed_path, call
\* fix_video_codec; a failing ffmpeg raises out of process_video
PV_FixCodec ==
    /\ mode = "video" /\ pc = "start"
    /\ \E ffmpeg \in TranscodeOutcomes(fs, INPUT) :
         LET r == fix_video_codec(INPUT, FIXED, fs, readable, ffmpeg) IN
           /\ fs' = r.files
           /\ ffmpeg_calls' = ffmpeg_calls + r.calls
           /\ IF r.raised
              THEN /\ pc' = "raised"
                   /\ error' = "TranscodeFailure"
                   /\ video_path' = video_path
              ELSE /\ pc' = "open"
                   /\ error' = error
                   /\ video_path' = r.path
    /\ trk' = initialize_tracker
    /\ next_id' = 1
    /\ UNCHANGED <<envvars, overlay, calls, loopvars, handlevars, countvars,
                   fps, max_frames, result, stop_reason, confirmed_seen, gt>>

\* (the VideoWriter created before the isOpened test)
PV_Open_WriterFirst ==
    /\ mode = "video" /\ pc = "open"
    /\ out' = "open"
    /\ fs' = fs \cup {OUTPUT}
    /\ \E opened \in IF video_path \in fs THEN BOOLEAN ELSE {FALSE} :
         IF ~opened
         THEN /\ pc' = "raised"
              /\ error' = "FailedToOpen"
              /\ cap' = cap
         ELSE /\ pc' = "writer"
              /\ error' = error
              /\ cap' = "open"
    /\ UNCHANGED <<envvars, overlay, calls, loopvars, trackervars, countvars,
                   video_path, fps, max_frames, result, ffmpeg_calls,
                   stop_reason>>

\* lines 163-166: open the capture, raise when it is not opened
PV_Open ==
    /\ mode = "video" /\ pc = "open"
    /\ \E opened \in IF video_path \in fs THEN BOOLEAN ELSE {FALSE} :
         IF ~opened
         THEN /\ pc' = "raised"
              /\ error' = "FailedToOpen"
              /\ cap' = cap
         ELSE /\ pc' = "writer"
              /\ error' = error
              /\ cap' = "open"
    /\ UNCHANGED <<envvars, overlay, calls, loopvars, trackervars, countvars,
                   fs, video_path, out, fps, max_frames, result, ffmpeg_calls,
                   stop_reason>>

\* lines 169-185: read the properties, create the VideoWriter on output_path,
\* start with an empty identity set and a frame count of 0
PV_InitWriter ==
    /\ mode = "video" /\ pc = "writer"
    /\ fps' = reported_fps
    /\ out' = VideoWriter(fs, OUTPUT, fps').handle
    /\ fs' = VideoWriter(fs, OUTPUT, fps').files
    /\ unique_ids' = {}
    /\ frame_count' = 0
    /\ pc' = "read"
    /\ UNCHANGED <<envvars, overlay, calls, trackervars, boxes, video_path,
                   cap, max_frames, detections, tracks, active_ids, error,
                   result, ffmpeg_calls, reads_ok, reads_failed, written,
                   stop_reason>>

\* (a loop that counts the frame before it tests ret)
AfterRead_CountFirst(ret, count) == count + 1

\* frame_count after one cap.read() of either loop: the break on a failed
\* read comes before the increment
AfterRead(ret, count) == IF ret THEN count + 1 ELSE count

\* lines 187-192: while True: read; leave the loop when no frame came back
\* (the media is exhausted or the frame could not be decoded), else count it
PV_Read ==
    /\ mode = "video" /\ pc = "read"
    /\ \E ret \in IF reads_ok < limit THEN BOOLEAN ELSE {FALSE} :
         /\ frame_count' = AfterRead(ret, frame_count)
         /\ IF ~ret
            THEN /\ pc' = "release"
                 /\ reads_failed' = reads_failed + 1
                 /\ \E why \in IF reads_ok < limit
                                THEN {"EndOfStream", "DecodeError"}
                                ELSE {"EndOfStream"} :
                       stop_reason' = why
                 /\ reads_ok' = reads_ok
            ELSE /\ pc' = "detect"
                 /\ reads_ok' = reads_ok + 1
                 /\ UNCHANGED <<reads_failed, stop_reason>>
    /\ UNCHANGED <<envvars, overlay, calls, loopvars, trackervars, handlevars,
                   fs, video_path, fps, max_frames, error, result,
                   ffmpeg_calls, written>>

\* ------------------------------------------------------------ the loop body
\* (process_video lines 195-213, the same statements as process_camera
\* lines 298-316)

\* (a loop that forgets the is_confirmed test)
ConfirmedIds_Any(ts) == {t.track_id : t \in ts}

\* the identities of the tracks that pass the is_confirmed() test
ConfirmedIds(ts) == {t.track_id : t \in {x \in ts : x.is_confirmed}}

\* get_detections on the frame just read; the detector's raw result is any
\* result that keeps the tracker within MaxTracks tracks
Detect ==
    /\ pc = "detect"
    /\ \E raw \in RawResults(scene) :
         LET d == get_detections(raw, confidence_threshold) IN
           /\ next_id + Created(trk, d) <= MaxTracks + 1
           /\ boxes' = raw
           /\ detections' = d
    /\ calls' = [calls EXCEPT !.predict = @ + 1]
    /\ pc' = "update"
    /\ UNCHANGED <<envvars, overlay, trackervars, handlevars, countvars, fs,
                   video_path, fps, max_frames, unique_ids, tracks, active_ids,
                   error, result, ffmpeg_calls, stop_reason>>

\* (a loop that leaves the tracker alone when nothing was detected)
Update_SkipEmpty ==
    /\ pc = "update"
    /\ IF detections = {}
       THEN /\ tracks' = {}
            /\ UNCHANGED <<trk, next_id, confirmed_seen, gt, calls>>
       ELSE /\ trk' = update_tracks(trk, detections, next_id)
            /\ next_id' = next_id + Created(trk, detections)
            /\ tracks' = TrackList(trk')
            /\ confirmed_seen' = confirmed_seen \cup ConfirmedIds(tracks')
            /\ gt' = [p \in People |-> Truth(gt[p], p \in detections)]
            /\ calls' = [calls EXCEPT !.update_tracks = @ + 1]
    /\ boxes' = {}
    /\ pc' = "accumulate"
    /\ UNCHANGED <<envvars, overlay, handlevars, countvars, fs, video_path,
                   fps, max_frames, unique_ids, detections, active_ids, error,
                   result, ffmpeg_calls, stop_reason>>

\* tracks = tracker.update_tracks(detections, frame=frame)
Update ==
    /\ pc = "update"
    /\ trk' = update_tracks(trk, detections, next_id)
    /\ next_id' = next_id + Created(trk, detections)
    /\ tracks' = TrackList(trk')
    /\ confirmed_seen' =
          confirmed_seen \cup
              {t.track_id : t \in {x \in tracks' : x.is_confirmed}}
    /\ gt' = [p \in People |-> Truth(gt[p], p \in detections)]
    /\ boxes' = {}
    /\ calls' = [calls EXCEPT !.update_tracks = @ + 1]
    /\ pc' = "accumulate"
    /\ UNCHANGED <<envvars, overlay, handlevars, countvars, fs, video_path,
                   fps, max_frames, unique_ids, detections, active_ids, error,
                   result, ffmpeg_calls, stop_reason>>

\* (a loop that rebuilds the set from the tracks of the current frame)
AddConfirmed_Reset(ids, ts) == ConfirmedIds(ts)

\* the identities the loop adds for one frame: those of the confirmed tracks
AddConfirmed(ids, ts) == ids \cup ConfirmedIds(ts)

\* active_ids = set(); for track in tracks: if track.is_confirmed(): add
Accumulate ==
    /\ pc = "accumulate"
    /\ active_ids' = {}
    /\ unique_ids' = AddConfirmed(unique_ids, tracks)
    /\ pc' = "draw"
    /\ UNCHANGED <<envvars, overlay, calls, trackervars, handlevars, countvars,
                   boxes, fs, video_path, fps, max_frames, detections, tracks,
                   error, result, ffmpeg_calls, stop_reason>>

\* (a drawing that forgets the is_confirmed test)
draw_tracking_info_All(ts, active, unique) ==
    LET a == active \cup {t.track_id : t \in ts} IN
      [active_ids |-> a, drawn |-> {t.track_id : t \in ts},
       people_count |-> Cardinality(a), total_unique |-> Cardinality(unique)]

\* draw_tracking_info: the confirmed tracks are added to active_ids and
\* drawn, then the two counters are drawn
draw_tracking_info(ts, active, unique) ==
    LET a == active \cup ConfirmedIds(ts) IN
      [active_ids |-> a, drawn |-> ConfirmedIds(ts),
       people_count |-> Cardinality(a), total_unique |-> Cardinality(unique)]

Draw ==
    /\ pc = "draw"
    /\ LET d == draw_tracking_info(tracks, active_ids, unique_ids) IN
         /\ active_ids' = d.active_ids
         /\ overlay' = [drawn |-> d.drawn, people_count |-> d.people_count,
                        total_unique |-> d.total_unique]
    /\ pc' = "write"
    /\ UNCHANGED <<envvars, calls, trackervars, handlevars, countvars, boxes,
                   fs, video_path, fps, max_frames, unique_ids, detections,
                   tracks, error, result, ffmpeg_calls, stop_reason>>

\* out.write(frame), then back to the head of the loop
Write ==
    /\ pc = "write"
    /\ written' = written + 1
    /\ pc' = "read"
    /\ UNCHANGED <<envvars, overlay, calls, loopvars, trackervars, handlevars,
                   fs, video_path, fps, max_frames, frame_count, reads_ok,
                   reads_failed, error, result, ffmpeg_calls, stop_reason>>

\* a call of the loop body raises (the detector, the tracker, the drawing
\* or the writer): nothing catches it, the exception leaves the function
StepRaises ==
    /\ pc \in {"detect", "update", "draw", "write"}
    /\ pc' = "raised"
    /\ error' = "ProcessingError"
    /\ boxes' = {}
    /\ UNCHANGED <<envvars, overlay, calls, trackervars, handlevars, countvars,
                   unique_ids, detections, tracks, active_ids, fs, video_path,
                   fps, max_frames, result, ffmpeg_calls, stop_reason>>

\* (a function that forgets out.release())
Release_CapOnly ==
    /\ pc = "release"
    /\ cap' = "released"
    /\ out' = out
    /\ calls' = [calls EXCEPT !.cap_release = @ + 1]
    /\ pc' = IF mode = "video" THEN "cleanup" ELSE "return"
    /\ UNCHANGED <<envvars, overlay, loopvars, trackervars, countvars, fs,
                   video_path, fps, max_frames, error, result, ffmpeg_calls,
                   stop_reason>>

\* cap.release(); out.release() after the loop
Release ==
    /\ pc = "release"
    /\ cap' = "released"
    /\ out' = "released"
    /\ calls' = [calls EXCEPT !.cap_release = @ + 1, !.out_release = @ + 1]
    /\ pc' = IF mode = "video" THEN "cleanup" ELSE "return"
    /\ UNCHANGED <<envvars, overlay, loopvars, trackervars, countvars, fs,
                   video_path, fps, max_frames, error, result, ffmpeg_calls,
                   stop_reason>>

\* lines 224-227: remove the fixed copy when one was made
PV_Cleanup ==
    /\ mode = "video" /\ pc = "cleanup"
    /\ fs' = IF video_path # INPUT /\ video_path \in fs
             THEN fs \ {video_path} ELSE fs
    /\ pc' = "return"
    /\ UNCHANGED <<envvars, overlay, calls, loopvars, trackervars, handlevars,
                   countvars, video_path, fps, max_frames, error, result,
                   ffmpeg_calls, stop_reason>>

\* lines 229-234
PV_Return ==
    /\ mode = "video" /\ pc = "return"
    /\ result' = [kind |-> "video",
                  total_unique_people |-> Cardinality(unique_ids),
                  total_frames |-> frame_count,
                  duration_seconds |-> 0]
    /\ pc' = "done"
    /\ UNCHANGED <<envvars, overlay, calls, loopvars, trackervars, handlevars,
                   countvars, fs, video_path, fps, max_frames, error,
                   ffmpeg_calls, stop_reason>>

\* ------------------------------------------------------------ process_camera
\* lines 256-263: load the model and the tracker, open the camera
PC_Open ==
    /\ mode = "camera" /\ pc = "start"
    /\ \E opened \in BOOLEAN :
         IF ~opened
         THEN /\ pc' = "raised"
              /\ error' = "FailedToOpen"
              /\ cap' = cap
         ELSE /\ pc' = "writer"
              /\ error' = error
              /\ cap' = "open"
    /\ trk' = initialize_tracker
    /\ next_id' = 1
    /\ UNCHANGED <<envvars, overlay, calls, loopvars, countvars, fs,
                   video_path, out, fps, max_frames, result, ffmpeg_calls,
                   stop_reason, confirmed_seen, gt>>

\* lines 266-287
PC_InitWriter ==
    /\ mode = "camera" /\ pc = "writer"
    /\ fps' = EffectiveFps(reported_fps)
    /\ out' = VideoWriter(fs, OUTPUT, fps').handle
    /\ fs' = VideoWriter(fs, OUTPUT, fps').files
    /\ unique_ids' = {}
    /\ frame_count' = 0
    /\ max_frames' = MaxFramesOf(duration_seconds, fps')
    /\ pc' = "read"
    /\ UNCHANGED <<envvars, overlay, calls, trackervars, boxes, video_path,
                   cap, detections, tracks, active_ids, error, result,
                   ffmpeg_calls, reads_ok, reads_failed, written, stop_reason>>

\* (a loop condition that lets one more frame through)
LoopGuard_Inclusive(count, maxf) == count <= maxf

\* the loop condition of process_camera
LoopGuard(count, maxf) == count < maxf

\* (a loop in which a failed camera read raises instead of breaking)
PC_Read_RaiseOnFailure ==
    /\ mode = "camera" /\ pc = "read"
    /\ IF LoopGuard(frame_count, max_frames)
       THEN \E ret \in BOOLEAN :
              /\ frame_count' = AfterRead(ret, frame_count)
              /\ IF ~ret
                 THEN /\ pc' = "raised"
                      /\ error' = "ProcessingError"
                      /\ reads_failed' = reads_failed + 1
                      /\ stop_reason' = "ReadFailure"
                      /\ reads_ok' = reads_ok
                 ELSE /\ pc' = "detect"
                      /\ reads_ok' = reads_ok + 1
                      /\ UNCHANGED <<reads_failed, stop_reason, error>>
       ELSE /\ pc' = "release"
            /\ stop_reason' = "DurationReached"
            /\ UNCHANGED <<frame_count, reads_ok, reads_failed, error>>
    /\ UNCHANGED <<envvars, overlay, calls, loopvars, trackervars, handlevars,
                   fs, video_path, fps, max_frames, result, ffmpeg_calls,
                   written>>

\* lines 289-295: while frame_count < max_frames: read; break on a failed read
PC_Read ==
    /\ mode = "camera" /\ pc = "read"
    /\ IF LoopGuard(frame_count, max_frames)
       THEN \E ret \in BOOLEAN :
              /\ frame_count' = AfterRead(ret, frame_count)
              /\ IF ~ret
                 THEN /\ pc' = "release"
                      /\ reads_failed' = reads_failed + 1
                      /\ stop_reason' = "ReadFailure"
                      /\ reads_ok' = reads_ok
                 ELSE /\ pc' = "detect"
                      /\ reads_ok' = reads_ok + 1
                      /\ UNCHANGED <<reads_failed, stop_reason>>
       ELSE /\ pc' = "release"
            /\ stop_reason' = "DurationReached"
            /\ UNCHANGED <<frame_count, reads_ok, reads_failed>>
    /\ UNCHANGED <<envvars, overlay, calls, loopvars, trackervars, handlevars,
                   fs, video_path, fps, max_frames, error, result,
                   ffmpeg_calls, written>>

\* lines 327-334: actual_duration = frame_count / fps (hundredths of a second)
PC_Return ==
    /\ mode = "camera" /\ pc = "return"
    /\ result' = [kind |-> "camera",
                  total_unique_people |-> Cardinality(unique_ids),
                  total_frames |-> frame_count,
                  duration_seconds |-> (frame_count * 10000) \div fps]
    /\ pc' = "done"
    /\ UNCHANGED <<envvars, overlay, calls, loopvars, trackervars, handlevars,
                   countvars, fs, video_path, fps, max_frames, error,
                   ffmpeg_calls, stop_reason>>

\* ------------------------------------------------------------ app.py
\* ticks of the wall clock in one second
TicksPerSecond == 2

\* datetime.now().strftime("%Y%m%d_%H%M%S"): the clock down to the second
strftime(t) == t \div TicksPerSecond

NoPath == [dir |-> "", name |-> "", stamp |-> -1, ext |-> ""]

\* lines 66-71 and 116-118: the paths built from the timestamp
input_path(timestamp, file_ext) ==
    [dir |-> "uploads", name |-> "input", stamp |-> timestamp,
     ext |-> file_ext]

output_path(endpoint, timestamp) ==
    [dir |-> "outputs",
     name |-> IF endpoint = "video" THEN "output" ELSE "camera_output",
     stamp |-> timestamp, ext |-> ".mp4"]

\* tracker.py line 159: output_path.replace('.mp4', '_fixed.mp4')
fixed_path(path) == [path EXCEPT !.ext = "_fixed.mp4"]

\* the files a client uploads: no filename, a text file, two videos
NoFilename == [root |-> "", ext |-> ""]
Filenames ==
    {NoFilename, [root |-> "notes", ext |-> ".txt"],
     [root |-> "clip", ext |-> ".mp4"], [root |-> "clip", ext |-> ".avi"]}

allowed_extensions == {".mp4", ".avi", ".mov", ".mkv"}

\* the path a request uses for each of the files of its run
PathOf(r, kind) ==
    IF kind = INPUT THEN r.input_path
    ELSE IF kind = OUTPUT THEN r.output_path
    ELSE fixed_path(r.output_path)

Kinds == {INPUT, FIXED, OUTPUT}

\* the files of request r that are on the disk d
View(r, d) == {k \in Kinds : PathOf(r, k) \in d}

\* the disk once request r leaves the files fl at its paths
Commit(r, d, fl) ==
    (d \ {PathOf(r, k) : k \in Kinds}) \cup {PathOf(r, k) : k \in fl}

Request(endpoint, inp, outp, status) ==
    [endpoint |-> endpoint, input_path |-> inp, output_path |-> outp,
     status |-> status, output_file |-> NoPath, outcome |-> "none"]

Last == requests[Len(requests)]

Answer(status, file) ==
    [requests EXCEPT ![Len(requests)] =
        [@ EXCEPT !.status = status, !.output_file = file, !.outcome = pc]]

\* the locals and the history of a call that starts
StartRun ==
    /\ video_path' = ""
    /\ cap' = "none"
    /\ out' = "none"
    /\ fps' = 0
    /\ max_frames' = 0
    /\ frame_count' = 0
    /\ unique_ids' = {}
    /\ boxes' = {}
    /\ detections' = {}
    /\ tracks' = {}
    /\ active_ids' = {}
    /\ overlay' = NoOverlay
    /\ trk' = initialize_tracker
    /\ next_id' = 1
    /\ result' = NoResult
    /\ ffmpeg_calls' = 0
    /\ reads_ok' = 0
    /\ reads_failed' = 0
    /\ written' = 0
    /\ stop_reason' = "none"
    /\ calls' = NoCalls
    /\ confirmed_seen' = {}
    /\ gt' = [p \in People |-> NoTruth]

\* the call is over: its locals are gone, the service waits
EndRun ==
    /\ StartRun
    /\ pc' = "idle"
    /\ error' = "none"
    /\ fs' = {}
    /\ mode' = "video"
    /\ readable' = FALSE
    /\ confidence_threshold' = DefaultThreshold
    /\ duration_seconds' = 0
    /\ reported_fps' = FileFps
    /\ limit' = 0
    /\ scene' = {1}
    /\ api' = "idle"
    /\ now' = now

\* the service is up, nothing was received yet
ApiInit ==
    /\ mode = "video"
    /\ pc = "idle"
    /\ fs = {}
    /\ readable = FALSE
    /\ confidence_threshold = DefaultThreshold
    /\ duration_seconds = 0
    /\ reported_fps = FileFps
    /\ limit = 0
    /\ scene = {1}
    /\ api = "idle"
    /\ now = 0
    /\ requests = <<>>
    /\ disk = {}
    /\ NoRun

\* time passes between two requests
Tick ==
    /\ api = "idle"
    /\ now < MaxTicks
    /\ now' = now + 1
    /\ UNCHANGED <<runvars, api, requests, disk, pc, fs, video_path,
                   handlevars, fps, max_frames, countvars, loopvars, overlay,
                   trackervars, error, result, ffmpeg_calls, stop_reason,
                   calls>>

\* track_video, lines 53-63: a missing filename or a wrong extension is
\* answered with 400 before anything is written
track_video_Reject ==
    /\ api = "idle"
    /\ Len(requests) < MaxRequests
    /\ \E file \in Filenames :
         /\ file = NoFilename \/ file.ext \notin allowed_extensions
         /\ requests' = Append(requests, Request("video", NoPath, NoPath, 400))
    /\ UNCHANGED <<runvars, api, now, disk, pc, fs, video_path, handlevars,
                   fps, max_frames, countvars, loopvars, overlay, trackervars,
                   error, result, ffmpeg_calls, stop_reason, calls>>

\* track_video, lines 65-79: build the paths from the timestamp, save the
\* upload, call process_video; the save may raise with the file created
track_video_Begin ==
    /\ api = "idle"
    /\ Len(requests) < MaxRequests
    /\ \E file \in Filenames :
         /\ file # NoFilename /\ file.ext \in allowed_extensions
         /\ LET timestamp == strftime(now)
                r == Request("video", input_path(timestamp, file.ext),
                             output_path("video", timestamp), 0)
            IN /\ requests' = Append(requests, r)
               /\ fs' = View(r, disk) \cup {INPUT}
    /\ api' = "running"
    /\ mode' = "video"
    /\ \E saved \in BOOLEAN :
         IF saved
         THEN /\ StartRun
              /\ pc' = "start"
              /\ error' = "none"
              /\ readable' \in BOOLEAN
              /\ reported_fps' \in {0, FileFps}
              /\ limit' \in 1..MaxUploadFrames
         ELSE /\ StartRun
              /\ pc' = "raised"
              /\ error' = "UploadFailure"
              /\ readable' = FALSE
              /\ reported_fps' = FileFps
              /\ limit' = 0
    /\ confidence_threshold' = DefaultThreshold
    /\ duration_seconds' = 0
    /\ scene' = {1}
    /\ UNCHANGED <<now, disk>>

\* track_video, lines 81-90: process_video returned; remove the upload and
\* answer with the output file name
track_video_Return ==
    /\ api = "running" /\ mode = "video" /\ pc = "done"
    /\ requests' = Answer(200, Last.output_path)
    /\ disk' = Commit(Last, disk, fs \ {INPUT})
    /\ EndRun

\* track_video, lines 92-99: an exception; remove the upload and the output
\* and answer with 500
track_video_Except ==
    /\ api = "running" /\ mode = "video" /\ pc = "raised"
    /\ requests' = Answer(500, NoPath)
    /\ disk' = Commit(Last, disk, fs \ {INPUT, OUTPUT})
    /\ EndRun

\* track_camera, lines 115-126: build the path from the timestamp and call
\* process_camera
track_camera_Begin ==
    /\ api = "idle"
    /\ Len(requests) < MaxRequests
    /\ LET r == Request("camera", NoPath,
                        output_path("camera", strftime(now)), 0)
       IN /\ requests' = Append(requests, r)
          /\ fs' = View(r, disk)
    /\ api' = "running"
    /\ mode' = "camera"
    /\ StartRun
    /\ pc' = "start"
    /\ error' = "none"
    /\ readable' = FALSE
    /\ confidence_threshold' = DefaultThreshold
    /\ duration_seconds' \in Durations
    /\ reported_fps' \in
          {f \in ReportedFps :
              MaxFramesOf(MinDuration, EffectiveFps(f)) <= ShortRun}
    /\ limit' = 0
    /\ scene' = {1}
    /\ UNCHANGED <<now, disk>>

\* track_camera, lines 128-136
track_camera_Return ==
    /\ api = "running" /\ mode = "camera" /\ pc = "done"
    /\ requests' = Answer(200, Last.output_path)
    /\ disk' = Commit(Last, disk, fs)
    /\ EndRun

\* track_camera, lines 139-143: an exception; remove the output, answer 500
track_camera_Except ==
    /\ api = "running" /\ mode = "camera" /\ pc = "raised"
    /\ requests' = Answer(500, NoPath)
    /\ disk' = Commit(Last, disk, fs \ {OUTPUT})
    /\ EndRun

Next ==
    \/ PV_FixCodec
    \/ PV_Open
    \/ PV_InitWriter
    \/ PV_Read
    \/ Detect
    \/ Update
    \/ Accumulate
    \/ Draw
    \/ Write
    \/ StepRaises
    \/ Release
    \/ PV_Cleanup
    \/ PV_Return
    \/ PC_Open
    \/ PC_InitWriter
    \/ PC_Read
    \/ PC_Return

Spec == Init /\ [][Next]_vars

\* the service: requests are served one after the other (the endpoints are
\* coroutines that never await), each by a call of process_video or of
\* process_camera
ApiNext ==
    \/ Tick
    \/ track_video_Reject
    \/ track_video_Begin
    \/ track_video_Return
    \/ track_video_Except
    \/ track_camera_Begin
    \/ track_camera_Return
    \/ track_camera_Except
    \/ Next

ApiSpec == ApiInit /\ [][ApiNext]_vars

\* The runs checked for termination. The loop control (the while conditions,
\* ret, frame_count, max_frames) never reads the detections or the tracks, so
\* these are the runs in which no box passes the threshold: every length of
\* file and of camera run, a failed read and a raising call at every frame.
FairInit == Init /\ confidence_threshold = MaxConfidence

\* the interpreter keeps executing the function: every call made by the
\* function returns or raises, so a step that is possible is eventually taken
FairSpec == FairInit /\ [][Next]_vars /\ WF_vars(Next)

\* ====================================================================
\* Properties
\* ====================================================================

Ended == pc \in {"done", "raised"}
LoopFailed == pc = "raised" /\ error = "ProcessingError"

\* C1: when a step of the per-frame loop raises, the Frame Source and the
\* Frame Sink are both released before the error leaves the function, and
\* the error that leaves is that error.
C1_ReleasedOnLoopError ==
    LoopFailed => cap = "released" /\ out = "released"

\* C2: a codec-repaired copy that process_video made (the path returned by
\* fix_video_codec is not the input path) no longer exists when the run has
\* ended, however it ended; and the run does not delete the original input.
C2_FixedCopyRemoved ==
    (mode = "video" /\ Ended) =>
        /\ video_path = FIXED => FIXED \notin fs
        /\ video_path = INPUT => INPUT \in fs

\* C3: across the frames of one run the unique-identity set only grows: no
\* step removes an identity from it, so its size never decreases, also when
\* the track of a counted identity is no longer reported by the tracker.
C3_UniqueIdsOnlyGrow ==
    [][/\ unique_ids \subseteq unique_ids'
       /\ Cardinality(unique_ids) <= Cardinality(unique_ids')]_vars

\* a counted identity whose track the tracker has deleted
C3_Witness ==
    /\ pc = "draw"
    /\ \E id \in unique_ids : id \notin {t.track_id : t \in tracks}

Appeared == {p \in People : gt[p].appeared}
AllQualified == \A p \in Appeared : gt[p].qualified

\* C4 (as stated): when each of the N people of the detection stream was
\* detected in n_init consecutive frames, the run returns
\* total_unique_people = N, whatever the absences after the confirmation.
C4_CountEqualsPeople ==
    (pc = "done" /\ AllQualified) =>
        result.total_unique_people = Cardinality(Appeared)

\* C4 (amended): the same, for the streams in which nobody is detected again
\* after max_age or more consecutive frames of absence following the
\* confirmation.
C4_CountEqualsPeopleNoReturn ==
    (pc = "done" /\ AllQualified /\ \A p \in Appeared : ~gt[p].late) =>
        result.total_unique_people = Cardinality(Appeared)

\* a run that ended after a confirmed person stayed away for more than
\* max_age frames, so that the tracker deleted the track
C4_Witness ==
    /\ pc = "done"
    /\ AllQualified
    /\ \E p \in Appeared : ~gt[p].late /\ gt[p].absent > max_age
    /\ result.total_unique_people = Cardinality(Appeared)

\* C5: on normal termination total_unique_people is the number of distinct
\* identities the tracker reported as confirmed in some frame of the run;
\* identities that were only ever unconfirmed are not counted.
C5_CountIsConfirmedSeen ==
    pc = "done" =>
        /\ result.total_unique_people = Cardinality(confirmed_seen)
        /\ unique_ids = confirmed_seen

\* a run that ended with two confirmed identities counted and a third track
\* that was never confirmed
C5_Witness ==
    /\ pc = "done"
    /\ Cardinality(confirmed_seen) = 2
    /\ next_id = 4
    /\ result.total_unique_people = 2

\* C6: on normal termination total_frames is the number of successful reads;
\* the failed read that ended the loop is not counted.
C6_FramesAreSuccessfulReads ==
    pc = "done" => result.total_frames = reads_ok

C6_Witness ==
    /\ pc = "done"
    /\ reads_failed = 1
    /\ reads_ok = 3
    /\ result.total_frames = 3

\* duration_seconds * effectiveFrameRate, in hundredths of a frame
Product == duration_seconds * EffectiveFps(reported_fps)
InCameraLoop == mode = "camera" /\ out # "none"

\* C7 (as stated): the camera loop leaves for the duration reason exactly when
\* frameCount >= duration_seconds * effectiveFrameRate.
C7_StopsAtProduct ==
    InCameraLoop =>
        /\ stop_reason = "DurationReached" => frame_count * 100 >= Product
        /\ stop_reason = "ReadFailure" => frame_count * 100 < Product

\* C7 (amended): the loop leaves for the duration reason exactly when
\* frameCount has reached int(duration_seconds * effectiveFrameRate), the
\* product truncated to an integer, and no frame is read beyond that number;
\* with 5 seconds and a reported rate of 0 that number is 150.
C7_StopsAtTruncatedProduct ==
    InCameraLoop =>
        /\ stop_reason = "DurationReached" =>
              /\ frame_count * 100 <= Product
              /\ (frame_count + 1) * 100 > Product
        /\ stop_reason = "ReadFailure" => (frame_count + 1) * 100 <= Product
        /\ reads_ok * 100 <= Product
        /\ (duration_seconds = 5 /\ reported_fps = 0) =>
              /\ reads_ok <= 150
              /\ stop_reason = "DurationReached" => frame_count = 150

\* the 5 second run on a camera that reports no rate, stopped at frame 150
C7_Witness ==
    /\ mode = "camera" /\ pc = "done"
    /\ duration_seconds = 5 /\ reported_fps = 0
    /\ stop_reason = "DurationReached"
    /\ result.total_frames = 150

\* C8: process_video on an input path that does not exist fails with the
\* failed-to-open error, not with a transcode failure, and creates no output
\* file.
C8_MissingInputFailsToOpen ==
    (mode = "video" /\ INPUT \notin fs /\ Ended) =>
        /\ pc = "raised"
        /\ error = "FailedToOpen"
        /\ OUTPUT \notin fs

\* C9: when the Frame Source fails to open, in either mode, the VideoWriter
\* is never created, no frame is read or written, no output file exists and
\* no result is returned.
C9_NoOutputOnFailedOpen ==
    (pc = "raised" /\ error = "FailedToOpen") =>
        /\ out = "none"
        /\ OUTPUT \notin fs
        /\ reads_ok = 0 /\ reads_failed = 0 /\ written = 0
        /\ result.kind = "none"

\* the repaired copy could not be opened
C9_Witness ==
    /\ mode = "video" /\ pc = "raised" /\ error = "FailedToOpen"
    /\ video_path = FIXED
    /\ out = "none"

\* C10: fix_video_codec returns the input path without running the
\* transcoder when the probe read succeeds, and runs it exactly once and
\* returns the derived path when the probe read fails; calling it again on a
\* readable file gives the same pass-through result and creates no file.
C10_CodecRepair ==
    /\ (mode = "video" /\ pc # "start") =>
          /\ readable =>
                ffmpeg_calls = 0 /\ video_path = INPUT /\ FIXED \notin fs
          /\ ~readable => ffmpeg_calls = 1
          /\ (~readable /\ error # "TranscodeFailure") => video_path = FIXED
    /\ (mode = "video" /\ pc \in {"start", "open"}) =>
          \A first, second \in {"ok", "fail", "partial"} :
             LET r1 == fix_video_codec(INPUT, FIXED, fs, TRUE, first)
                 r2 == fix_video_codec(INPUT, FIXED, r1.files, TRUE, second)
             IN  /\ ~r1.raised /\ r1.path = INPUT /\ r1.files = fs
                 /\ r1.calls = 0
                 /\ r2 = r1

\* process_video went on with the original of a readable input
C10_Witness ==
    /\ mode = "video" /\ pc = "open"
    /\ readable
    /\ video_path = INPUT
    /\ ffmpeg_calls = 0
    /\ fs = {INPUT}


\* C11: when the transcode step fails, the error leaves process_video: the
\* transcoder was invoked once and not again, no Frame Source or Frame Sink
\* is opened, no frame is read and no result is returned.
C11_TranscodeFailureIsFatal ==
    error = "TranscodeFailure" =>
        /\ pc = "raised"
        /\ ffmpeg_calls = 1
        /\ cap = "none" /\ out = "none"
        /\ reads_ok = 0 /\ reads_failed = 0
        /\ OUTPUT \notin fs
        /\ result.kind = "none"

\* ffmpeg failed on an input that exists and cv2 cannot decode
C11_Witness ==
    /\ mode = "video" /\ pc = "raised" /\ error = "TranscodeFailure"
    /\ INPUT \in fs /\ ~readable
    /\ ffmpeg_calls = 1


SoftEnds == {"EndOfStream", "ReadFailure", "DurationReached"}

C13_SoftEndsReturnNormally ==
    stop_reason \in SoftEnds =>
        /\ error = "none"
        /\ pc \in {"release", "cleanup", "return", "done"}
        /\ frame_count = reads_ok /\ written = reads_ok
        /\ pc = "done" =>
              /\ result.kind = mode
              /\ result.total_frames = reads_ok
              /\ result.total_unique_people = Cardinality(unique_ids)

\* the camera fails its first read: a result with 0 frames is returned
C13_Witness ==
    /\ pc = "done" /\ stop_reason = "ReadFailure"
    /\ error = "none"
    /\ result.kind = "camera" /\ result.total_frames = 0


\* C14: on every normal termination the Frame Source and the Frame Sink are
\* each released exactly once, after the last frame was written and before
\* the result is returned, and no frame is read or written after the
\* release.
C14_ReleasedOnceOnReturn ==
    /\ [](/\ calls.cap_release <= 1 /\ calls.out_release <= 1
          /\ cap = "released" <=> calls.cap_release = 1
          /\ out = "released" <=> calls.out_release = 1
          /\ cap = "released" => written = reads_ok
          /\ result.kind # "none" => cap = "released" /\ out = "released"
          /\ pc = "done" => result.kind # "none")
    /\ [][cap = "released" =>
            /\ reads_ok' = reads_ok /\ reads_failed' = reads_failed
            /\ written' = written]_vars

\* a run that wrote frames, released both handles and returned
C14_Witness ==
    /\ pc = "done" /\ result.kind # "none"
    /\ written > 0
    /\ calls.cap_release = 1 /\ calls.out_release = 1


\* C15: in file mode a read that fails before the media is exhausted (a
\* decode error in the middle of the stream) surfaces as an error: the run
\* never ends with a normally returned result and a truncated frame count.
C15_DecodeErrorSurfaces ==
    (stop_reason = "DecodeError" /\ Ended) =>
        /\ pc = "raised"
        /\ error = "ProcessingError"
        /\ result.kind = "none"


\* C17: every frame read goes through exactly one detect call, then exactly
\* one tracker update, then exactly one write, before the next frame is
\* read: no frame is skipped or processed twice, and on normal termination
\* the tracker updates and the frames written both number total_frames.
AfterLoop == pc \in {"release", "cleanup", "return", "done"}

C17_OneDetectUpdateWritePerFrame ==
    /\ (pc = "read" \/ AfterLoop) =>
          /\ calls.predict = reads_ok
          /\ calls.update_tracks = reads_ok
          /\ written = reads_ok
    /\ pc = "detect" =>
          /\ calls.predict = reads_ok - 1
          /\ calls.update_tracks = reads_ok - 1
          /\ written = reads_ok - 1
    /\ pc = "update" =>
          /\ calls.predict = reads_ok
          /\ calls.update_tracks = reads_ok - 1
          /\ written = reads_ok - 1
    /\ pc \in {"accumulate", "draw", "write"} =>
          /\ calls.predict = reads_ok
          /\ calls.update_tracks = reads_ok
          /\ written = reads_ok - 1
    /\ pc = "done" =>
          /\ calls.update_tracks = result.total_frames
          /\ written = result.total_frames

\* a run of several frames has returned
C17_Witness ==
    /\ pc = "done"
    /\ result.total_frames >= 2
    /\ calls.predict = result.total_frames
    /\ calls.update_tracks = result.total_frames
    /\ written = result.total_frames


\* C18: drawing and counting use the same filter: in every frame the
\* identities drawn and counted as active are exactly those of the tracks
\* the tracker holds confirmed in that frame, they all belong to the
\* unique-identity set, and the current count displayed never exceeds the
\* cumulative count displayed.
ConfirmedNow == {trk[p].id : p \in {q \in People : trk[q].st = "confirmed"}}

C20_EveryRunTerminates ==
    /\ [](/\ reads_ok <= RunLength(mode, limit, duration_seconds, reported_fps)
          /\ reads_failed <= 1)
    /\ <>Ended

\* a camera that never failed a read was stopped by the duration bound
C20_Witness ==
    /\ mode = "camera" /\ pc = "done"
    /\ reads_failed = 0
    /\ reads_ok = MaxFramesOf(duration_seconds, EffectiveFps(reported_fps))
    /\ reads_ok > ShortRun


\* C16: once track_video has answered, the uploaded input file is gone, on
\* success and on failure alike; when the processing raised, the answer is
\* 500 and the output file does not exist; when it returned, the answer is
\* 200 and the output file named in the answer exists. After a failed
\* track_camera request the output file does not exist.
Served == api = "idle" /\ requests # <<>> /\ Last.status # 400

C16_ArtifactsAfterAnswer ==
    Served =>
        /\ Last.input_path \notin disk
        /\ Last.outcome = "raised" =>
              Last.status = 500 /\ Last.output_path \notin disk
        /\ (Last.endpoint = "video" /\ Last.outcome = "done") =>
              /\ Last.status = 200
              /\ Last.output_file = Last.output_path
              /\ Last.output_file \in disk

\* C19: the file names the API generates are unique per request: two
\* requests, also two received within the same clock second, never get the
\* same input path or the same output path.
Accepted == {i \in 1..Len(requests) : requests[i].status # 400}

C19_PathsUniquePerRequest ==
    \A i, j \in Accepted :
        i # j =>
            /\ requests[i].output_path # requests[j].output_path
            /\ (requests[i].endpoint = "video"
                  /\ requests[j].endpoint = "video") =>
                  requests[i].input_path # requests[j].input_path

====
